---- MODULE Spec2Model ----
(***************************************************************************)
(* Model of the weather dashboard controller script.js.                    *)
(*                                                                         *)
(* Time is counted in whole hours since midnight of day 0.  An hourly      *)
(* timestamp "YYYY-MM-DDTHH:00" is the number H of its hour, its date      *)
(* portion is H \div 24 and its clock hour is H % 24; a daily date         *)
(* "YYYY-MM-DD" is the number of its day.  Temperatures and wind speeds     *)
(* are in tenths of a unit, so that Math.round has something to round.     *)
(* A JavaScript object is a record; a missing property is a missing field  *)
(* of the record, and reading one yields <<>> (undefined) through Get.     *)
(* The browser's time zone is taken to be the forecast's.  The page starts *)
(* with the status indicator shown and the container hidden.  A handler or *)
(* callback runs to its next await in one step.                            *)
(***************************************************************************)
EXTENDS Integers, Sequences, FiniteSets, TLC

VARIABLES
    weatherData,    \* script.js:14, <<>> for null, else <<payload>>
    statusVisible,  \* statusDiv is displayed
    statusText,     \* statusText.innerText
    appVisible,     \* weatherContainer is displayed
    mainView,       \* the main card: header, temperature, grid, theme
    hourCards,      \* children of #hourlyWrapper
    dayRows,        \* children of #dailyWrapper
    seqs,           \* the asynchronous sequences in flight
    now,            \* the wall clock, in hours
    geoSupported,   \* navigator.geolocation is present
    lastTrig,       \* the sequence the user triggered last (0: none yet)
    triggers,       \* how many sequences the user has started
    ev,             \* the handler or callback that ran last
    fnIn,           \* argument of the function under test (SpecFn)
    fnOut           \* its result (SpecFn)

appVars == <<weatherData, statusVisible, statusText, appVisible, mainView,
             hourCards, dayRows, seqs, now, geoSupported, lastTrig, triggers, ev>>
fnVars == <<fnIn, fnOut>>
vars == <<weatherData, statusVisible, statusText, appVisible, mainView,
          hourCards, dayRows, seqs, now, geoSupported, lastTrig, triggers, ev,
          fnIn, fnOut>>

-----------------------------------------------------------------------------
(* Bounds of the model and constants of the program *)

HourlyWindow == 24      \* script.js:194
HoursPerDay == 24       \* script.js:197, Date.getHours
MaxHourlyLen == 30      \* longest hourly series given to renderHourly alone
NumDays == 2            \* days in a forecast (forecast_days in the request)
MaxSeq == 2             \* sequences in flight at once
MaxTriggers == 2        \* sequences the user starts in one session
MaxCode == 99           \* largest weather code given to parseWeather alone
ClockValues == <<5, 30, 55>>    \* the instants at which handlers run

-----------------------------------------------------------------------------
(* JavaScript helpers *)

Has(obj, f) == f \in DOMAIN obj

Get(obj, f) == IF f \in DOMAIN obj THEN <<obj[f]>> ELSE <<>>

\* Math.round of a number given in tenths: halves round towards +infinity;
\* Math.round(undefined) is NaN.
MathRound(x) == IF x = <<>> THEN "NaN" ELSE ToString((x[1] + 5) \div 10)

Min(a, b) == IF a < b THEN a ELSE b

\* Array.prototype.findIndex, given the positions (from 1) of the entries
\* that satisfy the test: the first of them, 0-based, or -1 when there is
\* none.
FindIndex(hits) ==
    IF hits = {} THEN -1
    ELSE (CHOOSE k \in hits : \A j \in hits : k <= j) - 1

-----------------------------------------------------------------------------
(* parseWeather, script.js:260-269 *)

IconUrl(n, b) == "https://openweathermap.org/img/wn/" \o n \o b \o "@4x.png"

\* parseWeather with the fog bucket left out and the rain bucket starting
\* at 45.
parseWeather_NoFog(code, isDay) ==
    LET b == IF isDay # 0 THEN "d" ELSE "n" IN
    IF code = 0 THEN
        [label |-> "Clear Sky", icon |-> IconUrl("01", b),
         theme |-> IF isDay # 0 THEN "clear" ELSE "night"]
    ELSE IF code <= 3 THEN
        [label |-> "Partly Cloudy", icon |-> IconUrl("02", b), theme |-> "cloudy"]
    ELSE IF code >= 45 /\ code <= 67 THEN
        [label |-> "Rain", icon |-> IconUrl("10", b), theme |-> "rain"]
    ELSE IF code >= 71 /\ code <= 86 THEN
        [label |-> "Snowfall", icon |-> IconUrl("13", b), theme |-> "cloudy"]
    ELSE IF code >= 95 THEN
        [label |-> "Thunderstorm", icon |-> IconUrl("11", b), theme |-> "rain"]
    ELSE
        [label |-> "Cloudy", icon |-> IconUrl("03", b), theme |-> "cloudy"]

parseWeather(code, isDay) ==
    LET b == IF isDay # 0 THEN "d" ELSE "n" IN
    IF code = 0 THEN
        [label |-> "Clear Sky", icon |-> IconUrl("01", b),
         theme |-> IF isDay # 0 THEN "clear" ELSE "night"]
    ELSE IF code <= 3 THEN
        [label |-> "Partly Cloudy", icon |-> IconUrl("02", b), theme |-> "cloudy"]
    ELSE IF code >= 45 /\ code <= 48 THEN
        [label |-> "Foggy", icon |-> IconUrl("50", b), theme |-> "cloudy"]
    ELSE IF code >= 51 /\ code <= 67 THEN
        [label |-> "Rain", icon |-> IconUrl("10", b), theme |-> "rain"]
    ELSE IF code >= 71 /\ code <= 86 THEN
        [label |-> "Snowfall", icon |-> IconUrl("13", b), theme |-> "cloudy"]
    ELSE IF code >= 95 THEN
        [label |-> "Thunderstorm", icon |-> IconUrl("11", b), theme |-> "rain"]
    ELSE
        [label |-> "Cloudy", icon |-> IconUrl("03", b), theme |-> "cloudy"]

-----------------------------------------------------------------------------
(* renderHourly, script.js:175-223 *)

\* script.js:197: new Date(t).getHours()
GetHours(t) == t % HoursPerDay

\* The date portion of an hourly timestamp; t.startsWith(d) compares it
\* with a daily date (script.js:189).
DatePortion(t) == t \div HoursPerDay

\* script.js:198
HourLabel(h) ==
    IF h = 0 THEN "12 AM"
    ELSE IF h > 12 THEN ToString(h - 12) \o " PM"
    ELSE ToString(h) \o " AM"

\* The start index taken from the clock in every view.
StartIdx_AlwaysNow(hourly, dayIndex, daily, clock) ==
    LET k == FindIndex({j \in DOMAIN hourly.time : hourly.time[j] > clock})
    IN  IF k = -1 THEN 0 ELSE k

\* The start index of the current view found with >= in place of >.
StartIdx_AtOrAfter(hourly, dayIndex, daily, clock) ==
    IF dayIndex = -1 THEN
        LET k == FindIndex({j \in DOMAIN hourly.time : hourly.time[j] >= clock})
        IN  IF k = -1 THEN 0 ELSE k
    ELSE IF daily # <<>> THEN
        LET targetDate == daily[1].time[dayIndex + 1]
            k == FindIndex({j \in DOMAIN hourly.time :
                              DatePortion(hourly.time[j]) = targetDate})
        IN  IF k = -1 THEN 0 ELSE k
    ELSE 0

\* script.js:179-191.  daily is <<>> when the argument is null.
StartIdx(hourly, dayIndex, daily, clock) ==
    IF dayIndex = -1 THEN
        LET k == FindIndex({j \in DOMAIN hourly.time : hourly.time[j] > clock})
        IN  IF k = -1 THEN 0 ELSE k
    ELSE IF daily # <<>> THEN
        LET targetDate == daily[1].time[dayIndex + 1]
            k == FindIndex({j \in DOMAIN hourly.time :
                              DatePortion(hourly.time[j]) = targetDate})
        IN  IF k = -1 THEN 0 ELSE k
    ELSE 0

\* The card of the start entry labelled "Now" whatever the view.
HourCard_NowInEveryView(hourly, dayIndex, startIdx, i) ==
    LET h == GetHours(hourly.time[i + 1])
        label == HourLabel(h)
        m == parseWeather(hourly.weather_code[i + 1],
                          IF h > 6 /\ h < 19 THEN 1 ELSE 0)
    IN  [timeLabel |-> IF i = startIdx THEN "Now" ELSE label,
         icon |-> m.icon,
         temp |-> MathRound(<<hourly.temperature_2m[i + 1]>>) \o " deg"]

\* script.js:196-212: the card built for entry i (0-based) of the series.
HourCard(hourly, dayIndex, startIdx, i) ==
    LET h == GetHours(hourly.time[i + 1])
        label == HourLabel(h)
        m == parseWeather(hourly.weather_code[i + 1],
                          IF h > 6 /\ h < 19 THEN 1 ELSE 0)
    IN  [timeLabel |-> IF dayIndex = -1 /\ i = startIdx THEN "Now" ELSE label,
         icon |-> m.icon,
         temp |-> MathRound(<<hourly.temperature_2m[i + 1]>>) \o " deg"]

\* script.js:194-222, the loop without its safety check: an entry past the
\* end reads undefined everywhere and still yields a card.
RECURSIVE HourLoop_NoBreak(_, _, _, _, _)
HourLoop_NoBreak(hourly, dayIndex, startIdx, i, acc) ==
    IF ~(i < startIdx + HourlyWindow) THEN acc
    ELSE IF i >= Len(hourly.time) THEN
        HourLoop_NoBreak(hourly, dayIndex, startIdx, i + 1,
            Append(acc, [timeLabel |-> IF dayIndex = -1 /\ i = startIdx
                                       THEN "Now" ELSE "NaN AM",
                         icon |-> IconUrl("03", "n"),
                         temp |-> "NaN deg"]))
    ELSE HourLoop_NoBreak(hourly, dayIndex, startIdx, i + 1,
                          Append(acc, HourCard(hourly, dayIndex, startIdx, i)))

\* script.js:194-222
RECURSIVE HourLoop(_, _, _, _, _)
HourLoop(hourly, dayIndex, startIdx, i, acc) ==
    IF ~(i < startIdx + HourlyWindow) THEN acc
    ELSE IF i >= Len(hourly.time) THEN acc     \* !hourly.time[i]: break
    ELSE HourLoop(hourly, dayIndex, startIdx, i + 1,
                  Append(acc, HourCard(hourly, dayIndex, startIdx, i)))

\* renderHourly(hourly, dayIndex, daily): the wrapper is emptied first, then
\* hourly.time throws when hourly is undefined.
renderHourly(hourly, dayIndex, daily, clock) ==
    IF hourly = <<>> THEN [threw |-> TRUE, startIdx |-> 0, cards |-> <<>>]
    ELSE LET s == StartIdx(hourly[1], dayIndex, daily, clock)
         IN  [threw |-> FALSE, startIdx |-> s,
              cards |-> HourLoop(hourly[1], dayIndex, s, s, <<>>)]

-----------------------------------------------------------------------------
(* The forecast service, script.js:76-78: what it answers *)

CodeCycle == <<0, 2, 45, 61, 75, 96, 40>>

HourlyCodeAt(t) == CodeCycle[(t % Len(CodeCycle)) + 1]

HourlyTempAt(t) == ((t * 37) % 400) - 95

\* n hourly entries from hour base on, one per hour.
HourlySeries(base, n) ==
    [time |-> [k \in 1..n |-> base + k - 1],
     temperature_2m |-> [k \in 1..n |-> HourlyTempAt(base + k - 1)],
     weather_code |-> [k \in 1..n |-> HourlyCodeAt(base + k - 1)]]

DailyCodeAt(d) == CodeCycle[((d + 3) % Len(CodeCycle)) + 1]

DailySeries(day0, n) ==
    [time |-> [k \in 1..n |-> day0 + k - 1],
     weather_code |-> [k \in 1..n |-> DailyCodeAt(day0 + k - 1)],
     temperature_2m_max |-> [k \in 1..n |-> 285 + k],
     temperature_2m_min |-> [k \in 1..n |-> 114 - k],
     uv_index_max |-> [k \in 1..n |-> 6 + k],
     precipitation_probability_max |-> [k \in 1..n |-> (k - 1) * 40],
     wind_speed_10m_max |-> [k \in 1..n |-> 175 + k]]

CurrentConditions(loc, clock) ==
    [temperature_2m |-> 205 + 10 * loc,
     relative_humidity_2m |-> 60 + loc,
     apparent_temperature |-> 200,
     is_day |-> IF GetHours(clock) > 6 /\ GetHours(clock) < 19 THEN 1 ELSE 0,
     precipitation |-> loc,
     weather_code |-> HourlyCodeAt(clock + loc),
     wind_speed_10m |-> 125]

Drop(obj, f) == [k \in DOMAIN obj \ {f} |-> obj[k]]

Put(obj, f, v) == [k \in DOMAIN obj \cup {f} |-> IF k = f THEN v ELSE obj[k]]

FullForecast(loc, clock) ==
    [latitude |-> loc,
     current |-> CurrentConditions(loc, clock),
     hourly |-> HourlySeries(DatePortion(clock) * HoursPerDay, NumDays * HoursPerDay),
     daily |-> DailySeries(DatePortion(clock), NumDays)]

\* The shapes of answer the forecast request can get: the complete payload,
\* or one with a requested part missing.
ForecastShapes == {"ok", "noCurrent", "noHourly", "noDaily", "noTemp"}

ForecastData(loc, clock, shape) ==
    LET full == FullForecast(loc, clock) IN
    CASE shape = "ok" -> full
      [] shape = "noCurrent" -> Drop(full, "current")
      [] shape = "noHourly" -> Drop(full, "hourly")
      [] shape = "noDaily" -> Drop(full, "daily")
      [] shape = "noTemp" ->
            [full EXCEPT !.current = Drop(full.current, "temperature_2m")]

-----------------------------------------------------------------------------
(* renderMainView, script.js:114-173 *)

\* Intl's 12-hour clock, used by toLocaleDateString with hour and minute.
ClockTime(t) ==
    LET h == GetHours(t) IN
    ToString(IF h % 12 = 0 THEN 12 ELSE h % 12) \o ":00 "
        \o (IF h < 12 THEN "AM" ELSE "PM")

\* toLocaleDateString with weekday, month and day (script.js:134).
DateString(d) == "weekday " \o ToString(d % 7) \o ", day " \o ToString(d)

\* toLocaleDateString of the current instant, with the time (script.js:122).
DateTimeString(t) == DateString(DatePortion(t)) \o " at " \o ClockTime(t)

BlankMain ==
    [index |-> -1, cityName |-> "", currentDay |-> "", conditionDesc |-> "",
     tempNow |-> "", degShown |-> TRUE, weatherIcon |-> "", precip |-> "",
     humidity |-> "", wind |-> "", uv |-> "", theme |-> ""]

\* script.js:118-128 and 145-169: the fields of the current view.
CurrentFields(data, clock) ==
    LET cur == data.current
        meta == parseWeather(cur.weather_code, cur.is_day)
    IN  [index |-> -1,
         cityName |-> data.cityName,
         currentDay |-> DateTimeString(clock),
         conditionDesc |-> meta.label,
         tempNow |-> MathRound(Get(cur, "temperature_2m")),
         degShown |-> TRUE,
         weatherIcon |-> meta.icon,
         precip |-> ToString(cur.precipitation) \o " mm",
         humidity |-> ToString(cur.relative_humidity_2m) \o "%",
         wind |-> MathRound(<<cur.wind_speed_10m>>) \o " km/h",
         uv |-> ToString(data.daily.uv_index_max[1]),
         theme |-> meta.theme]

\* The day view with the humidity of the current conditions in place of the
\* placeholder.
DayFields_CurrentHumidity(data, index) ==
    LET day == data.daily
        meta == parseWeather(day.weather_code[index + 1], 1)
    IN  [index |-> index,
         cityName |-> data.cityName,
         currentDay |-> DateString(day.time[index + 1]),
         conditionDesc |-> meta.label,
         tempNow |-> "<span style=font-size:0.6em>"
                     \o MathRound(<<day.temperature_2m_max[index + 1]>>)
                     \o " deg / "
                     \o MathRound(<<day.temperature_2m_min[index + 1]>>)
                     \o "</span>",
         degShown |-> FALSE,
         weatherIcon |-> meta.icon,
         precip |-> ToString(day.precipitation_probability_max[index + 1]) \o "%",
         humidity |-> ToString(data.current.relative_humidity_2m) \o "%",
         wind |-> MathRound(<<day.wind_speed_10m_max[index + 1]>>) \o " km/h",
         uv |-> ToString(day.uv_index_max[index + 1]),
         theme |-> meta.theme]

\* script.js:129-143 and 145-169: the fields of the view of day index.
DayFields(data, index) ==
    LET day == data.daily
        meta == parseWeather(day.weather_code[index + 1], 1)
    IN  [index |-> index,
         cityName |-> data.cityName,
         currentDay |-> DateString(day.time[index + 1]),
         conditionDesc |-> meta.label,
         tempNow |-> "<span style=font-size:0.6em>"
                     \o MathRound(<<day.temperature_2m_max[index + 1]>>)
                     \o " deg / "
                     \o MathRound(<<day.temperature_2m_min[index + 1]>>)
                     \o "</span>",
         degShown |-> FALSE,
         weatherIcon |-> meta.icon,
         precip |-> ToString(day.precipitation_probability_max[index + 1]) \o "%",
         humidity |-> "--",
         wind |-> MathRound(<<day.wind_speed_10m_max[index + 1]>>) \o " km/h",
         uv |-> ToString(day.uv_index_max[index + 1]),
         theme |-> meta.theme]

\* renderMainView(data, index) run on the document (main, cards) at instant
\* clock: what the document holds afterwards and whether a TypeError came
\* out.  The fields are computed before any is written (script.js:118-143),
\* so a payload without current or daily throws with nothing written; the
\* hourly strip is rendered last (script.js:172), after the fields are
\* written.
renderMainView(data, index, clock, main, cards) ==
    IF \/ index = -1 /\ (~Has(data, "current") \/ ~Has(data, "daily"))
       \/ index # -1 /\ ~Has(data, "daily")
    THEN [threw |-> TRUE, main |-> main, cards |-> cards]
    ELSE LET fields == IF index = -1 THEN CurrentFields(data, clock)
                       ELSE DayFields(data, index)
             h == renderHourly(Get(data, "hourly"), index, Get(data, "daily"), clock)
         IN  [threw |-> h.threw, main |-> fields, cards |-> h.cards]

-----------------------------------------------------------------------------
(* renderDaily, script.js:225-258 *)

DayRow(daily, i) ==
    LET m == parseWeather(daily.weather_code[i + 1], 1)
        precip == daily.precipitation_probability_max[i + 1]
    IN  [index |-> i,
         name |-> IF i = 0 THEN "Today"
                  ELSE "weekday " \o ToString(daily.time[i + 1] % 7),
         precip |-> IF precip > 0 THEN ToString(precip) \o "%" ELSE "",
         icon |-> m.icon,
         high |-> MathRound(<<daily.temperature_2m_max[i + 1]>>) \o " deg",
         low |-> MathRound(<<daily.temperature_2m_min[i + 1]>>) \o " deg",
         background |-> ""]

\* script.js:219 and 243-244: every row is reset, then row lit (0-based,
\* -1 for none) is highlighted.
Highlight(rows, lit) ==
    [k \in DOMAIN rows |->
        [rows[k] EXCEPT !.background = IF k = lit + 1
                                       THEN "rgba(255,255,255,0.9)"
                                       ELSE "rgba(255,255,255,0.4)"]]

renderDaily(daily) == [k \in 1..Len(daily.time) |-> DayRow(daily, k - 1)]

-----------------------------------------------------------------------------
(* populateUI, script.js:87-107 *)

\* populateUI rendering the slot on display instead of the current view.
populateUI_KeepSlot(data, clock, main, cards, rows) ==
    LET r == renderMainView(data, main.index, clock, main, cards) IN
    [threw |-> r.threw, main |-> r.main, cards |-> r.cards,
     rows |-> IF r.threw THEN rows ELSE renderDaily(data.daily)]

\* The status is hidden and the container shown first (script.js:89-94);
\* then the current view is rendered and, if that did not throw, the rows.
populateUI(data, clock, main, cards, rows) ==
    LET r == renderMainView(data, -1, clock, main, cards) IN
    [threw |-> r.threw, main |-> r.main, cards |-> r.cards,
     rows |-> IF r.threw THEN rows ELSE renderDaily(data.daily)]

-----------------------------------------------------------------------------
(* The geocoding service and the names built from its answers *)

\* addr.city || addr.town || addr.village || addr.county || fallback
\* (script.js:59 and 288)
Locality(addr, fallback) ==
    IF Has(addr, "city") THEN addr.city
    ELSE IF Has(addr, "town") THEN addr.town
    ELSE IF Has(addr, "village") THEN addr.village
    ELSE IF Has(addr, "county") THEN addr.county
    ELSE fallback

\* script.js:60-62 and 289-291
WithPostcode(addr, name) ==
    IF Has(addr, "postcode") THEN name \o ", " \o addr.postcode ELSE name

\* Answers to the reverse lookup: a network or parse failure, a body with no
\* address, and bodies with an address.
ReverseResponses ==
    { [ok |-> FALSE],
      [ok |-> TRUE, data |-> [error |-> "Unable to geocode"]],
      [ok |-> TRUE, data |-> [address |-> [city |-> "Pune", postcode |-> "411001"]]],
      [ok |-> TRUE, data |-> [address |-> [country |-> "India"]]] }

\* reverseLookup without its fallback name: a failed lookup resolves to no
\* name.
reverseLookup_NoFallback(r) ==
    IF ~r.ok \/ ~Has(r.data, "address") THEN ""
    ELSE WithPostcode(r.data.address, Locality(r.data.address, "My Location"))

\* reverseLookup, script.js:282-294: the name it resolves to.
reverseLookup(r) ==
    IF ~r.ok \/ ~Has(r.data, "address") THEN "My Location"
    ELSE WithPostcode(r.data.address, Locality(r.data.address, "My Location"))

ReverseFailed(r) == ~r.ok \/ ~Has(r.data, "address")

\* Answers to the forward search: a failure, no match, and a first match
\* with or without an address.
SearchResponses ==
    { [ok |-> FALSE],
      [ok |-> TRUE, results |-> <<>>],
      [ok |-> TRUE, results |-> <<[lat |-> 2, lon |-> 2]>>],
      [ok |-> TRUE, results |->
          <<[lat |-> 2, lon |-> 2, address |-> [town |-> "Leh", county |-> "Ladakh"]],
            [lat |-> 3, lon |-> 3, address |-> [city |-> "Lehi"]]>>] }

\* The position the geolocation provider reports.
HereLat == 1

\* What the user may have typed in the search box.
Queries == { <<>>, <<" ">>, <<"Leh">>, <<" ", "Leh", " ">> }

\* String.prototype.trim on a text given as a sequence of pieces.
RECURSIVE TrimLeft(_)
TrimLeft(v) == IF v # <<>> /\ Head(v) = " " THEN TrimLeft(Tail(v)) ELSE v

RECURSIVE TrimRight(_)
TrimRight(v) ==
    IF v # <<>> /\ v[Len(v)] = " " THEN TrimRight(SubSeq(v, 1, Len(v) - 1)) ELSE v

Trim(v) == TrimRight(TrimLeft(v))

RECURSIVE Text(_)
Text(v) == IF v = <<>> THEN "" ELSE Head(v) \o Text(Tail(v))

-----------------------------------------------------------------------------
(* State *)

Seqs == 1..MaxSeq

IdleSeq == [pc |-> "idle", lat |-> 0, name |-> "", revFailed |-> FALSE]

NoEvent == [op |-> "none", seq |-> 0, out |-> "", idx |-> -1]

Event(op, s, out, i) == [op |-> op, seq |-> s, out |-> out, idx |-> i]

Init ==
    /\ weatherData = <<>>
    /\ statusVisible = TRUE
    /\ statusText = ""
    /\ appVisible = FALSE
    /\ mainView = BlankMain
    /\ hourCards = <<>>
    /\ dayRows = <<>>
    /\ seqs = [s \in Seqs |-> IdleSeq]
    /\ now = ClockValues[1]
    /\ geoSupported \in BOOLEAN
    /\ lastTrig = 0
    /\ triggers = 0
    /\ ev = NoEvent
    /\ fnIn = [op |-> "none"]
    /\ fnOut = [op |-> "none"]

\* setLoadingState leaving the container as it is.
setLoadingState_KeepsContainer(msg) ==
    /\ statusVisible' = TRUE
    /\ statusText' = msg
    /\ UNCHANGED appVisible

\* setLoadingState, script.js:271-280
setLoadingState(msg) ==
    /\ statusVisible' = TRUE
    /\ statusText' = msg
    /\ appVisible' = FALSE

\* A sequence started by the user takes the first free place.
FreeSeq(s) ==
    /\ seqs[s].pc = "idle"
    /\ \A t \in Seqs : seqs[t].pc = "idle" => s <= t

document == <<mainView, hourCards, dayRows>>

-----------------------------------------------------------------------------
(* Handlers and callbacks *)

\* initApp, script.js:26-43: the load event or a click on the location
\* button.
initApp ==
    /\ IF geoSupported
       THEN \E s \in Seqs :
                /\ FreeSeq(s)
                /\ setLoadingState("Finding your current location...")
                /\ seqs' = [seqs EXCEPT ![s] = [IdleSeq EXCEPT !.pc = "geo"]]
                /\ lastTrig' = s
                /\ triggers < MaxTriggers
                /\ triggers' = triggers + 1
                /\ ev' = Event("initApp", s, "", -1)
       ELSE /\ setLoadingState("Geolocation not supported.")
            /\ ev' = Event("initApp", 0, "unsupported", -1)
            /\ UNCHANGED <<seqs, lastTrig, triggers>>
    /\ UNCHANGED <<weatherData, document, now, geoSupported, fnVars>>

\* The position callback, script.js:30-35, up to the await of reverseLookup,
\* which has issued its request (script.js:284).
GeoSuccess(s) ==
    /\ seqs[s].pc = "geo"
    /\ seqs' = [seqs EXCEPT ![s] = [@ EXCEPT !.pc = "reverse", !.lat = HereLat]]
    /\ ev' = Event("geoSuccess", s, "", -1)
    /\ UNCHANGED <<weatherData, statusVisible, statusText, appVisible, document,
                   now, geoSupported, lastTrig, triggers, fnVars>>

\* The error callback without its status message.
GeoError_Silent(s) ==
    /\ seqs[s].pc = "geo"
    /\ seqs' = [seqs EXCEPT ![s] = IdleSeq]
    /\ ev' = Event("geoError", s, "denied", -1)
    /\ UNCHANGED <<weatherData, statusVisible, statusText, appVisible, document,
                   now, geoSupported, lastTrig, triggers, fnVars>>

\* The error callback, script.js:36-38.
GeoError(s) ==
    /\ seqs[s].pc = "geo"
    /\ setLoadingState("Location denied. Please search manually.")
    /\ seqs' = [seqs EXCEPT ![s] = IdleSeq]
    /\ ev' = Event("geoError", s, "denied", -1)
    /\ UNCHANGED <<weatherData, document, now, geoSupported, lastTrig, triggers, fnVars>>

\* The reverse lookup settles (script.js:284-293) and the callback goes on
\* to getWeather (script.js:34), which issues the forecast request
\* (script.js:76-77).
ReverseResponse(s, r) ==
    /\ seqs[s].pc = "reverse"
    /\ seqs' = [seqs EXCEPT ![s] = [@ EXCEPT !.pc = "forecast",
                                             !.name = reverseLookup(r),
                                             !.revFailed = ReverseFailed(r)]]
    /\ ev' = Event("reverse", s, IF ReverseFailed(r) THEN "fail" ELSE "ok", -1)
    /\ UNCHANGED <<weatherData, statusVisible, statusText, appVisible, document,
                   now, geoSupported, lastTrig, triggers, fnVars>>

\* handleManualSearch, script.js:45-51, with val the content of the search
\* box: up to the await of the search request.  Nothing happens on a query
\* that is empty once trimmed (script.js:47).
handleManualSearch(val) ==
    /\ IF Trim(val) = <<>>
       THEN UNCHANGED <<statusVisible, statusText, appVisible, seqs, lastTrig,
                        triggers, ev>>
       ELSE \E s \in Seqs :
                /\ FreeSeq(s)
                /\ setLoadingState("Searching for " \o Text(Trim(val)) \o "...")
                /\ seqs' = [seqs EXCEPT ![s] = [IdleSeq EXCEPT !.pc = "search"]]
                /\ lastTrig' = s
                /\ triggers < MaxTriggers
                /\ triggers' = triggers + 1
                /\ ev' = Event("search", s, "", -1)
    /\ UNCHANGED <<weatherData, document, now, geoSupported, fnVars>>

\* The search request settles, script.js:51-70.
SearchOutcome(r) ==
    IF ~r.ok THEN "fail"
    ELSE IF ~(Len(r.results) > 0) THEN "notFound"
    ELSE IF ~Has(r.results[1], "address") THEN "fail"
    ELSE "ok"

SearchName(r) ==
    LET data == r.results[1]
    IN  WithPostcode(data.address, Locality(data.address, "Unknown Location"))

\* The search handler dropping the stored payload when nothing is found.
SearchResponse_ClearsPayload(s, r) ==
    /\ seqs[s].pc = "search"
    /\ LET out == SearchOutcome(r) IN
        /\ ev' = Event("searchResponse", s, out, -1)
        /\ CASE out = "ok" ->
                 /\ seqs' = [seqs EXCEPT ![s] = [@ EXCEPT !.pc = "forecast",
                                                          !.lat = r.results[1].lat,
                                                          !.name = SearchName(r)]]
                 /\ UNCHANGED <<statusVisible, statusText, appVisible, weatherData>>
             [] out = "notFound" ->
                 /\ setLoadingState("City not found.")
                 /\ weatherData' = <<>>
                 /\ seqs' = [seqs EXCEPT ![s] = IdleSeq]
             [] out = "fail" ->
                 /\ setLoadingState("Search connection error.")
                 /\ seqs' = [seqs EXCEPT ![s] = IdleSeq]
                 /\ UNCHANGED weatherData
    /\ UNCHANGED <<document, now, geoSupported, lastTrig, triggers, fnVars>>

SearchResponse(s, r) ==
    /\ seqs[s].pc = "search"
    /\ LET out == SearchOutcome(r) IN
        /\ ev' = Event("searchResponse", s, out, -1)
        /\ CASE out = "ok" ->
                 /\ seqs' = [seqs EXCEPT ![s] = [@ EXCEPT !.pc = "forecast",
                                                          !.lat = r.results[1].lat,
                                                          !.name = SearchName(r)]]
                 /\ UNCHANGED <<statusVisible, statusText, appVisible>>
             [] out = "notFound" ->
                 /\ setLoadingState("City not found.")
                 /\ seqs' = [seqs EXCEPT ![s] = IdleSeq]
             [] out = "fail" ->
                 /\ setLoadingState("Search connection error.")
                 /\ seqs' = [seqs EXCEPT ![s] = IdleSeq]
    /\ UNCHANGED <<weatherData, document, now, geoSupported, lastTrig, triggers, fnVars>>

\* The forecast request settles, script.js:77-84.  r is the answer: a
\* failure of fetch or of res.json(), or the parsed body.
ForecastResponses(lat, clock) ==
    {[ok |-> FALSE, shape |-> "fail"]}
        \cup {[ok |-> TRUE, shape |-> sh, data |-> ForecastData(lat, clock, sh)] :
                sh \in ForecastShapes}

\* getWeather with a sequence guard: only the answer of the sequence
\* triggered last is stored and rendered.
getWeatherResponse_Guarded(s, r) ==
    /\ seqs[s].pc = "forecast"
    /\ seqs' = [seqs EXCEPT ![s] = IdleSeq]
    /\ ev' = Event("forecast", s, r.shape, -1)
    /\ IF ~r.ok
       THEN /\ setLoadingState("Weather data unavailable.")
            /\ UNCHANGED <<weatherData, document>>
       ELSE IF s # lastTrig
       THEN UNCHANGED <<weatherData, document, statusVisible, statusText, appVisible>>
       ELSE LET data == Put(r.data, "cityName", seqs[s].name)
                p == populateUI(data, now, mainView, hourCards, dayRows)
            IN  /\ weatherData' = <<data>>
                /\ mainView' = p.main
                /\ hourCards' = p.cards
                /\ dayRows' = p.rows
                /\ IF p.threw
                   THEN setLoadingState("Weather data unavailable.")
                   ELSE /\ statusVisible' = FALSE
                        /\ appVisible' = TRUE
                        /\ UNCHANGED statusText
    /\ UNCHANGED <<now, geoSupported, lastTrig, triggers, fnVars>>

\* getWeather reading the location name from the sequence triggered last
\* in place of its own argument.
getWeatherResponse_SharedName(s, r) ==
    /\ seqs[s].pc = "forecast"
    /\ seqs' = [seqs EXCEPT ![s] = IdleSeq]
    /\ ev' = Event("forecast", s, r.shape, -1)
    /\ IF ~r.ok
       THEN /\ setLoadingState("Weather data unavailable.")
            /\ UNCHANGED <<weatherData, document>>
       ELSE LET data == Put(r.data, "cityName", seqs[lastTrig].name)
                p == populateUI(data, now, mainView, hourCards, dayRows)
            IN  /\ weatherData' = <<data>>
                /\ mainView' = p.main
                /\ hourCards' = p.cards
                /\ dayRows' = p.rows
                /\ IF p.threw
                   THEN setLoadingState("Weather data unavailable.")
                   ELSE /\ statusVisible' = FALSE
                        /\ appVisible' = TRUE
                        /\ UNCHANGED statusText
    /\ UNCHANGED <<now, geoSupported, lastTrig, triggers, fnVars>>

\* getWeather rendering the answer without storing it.
getWeatherResponse_NoStore(s, r) ==
    /\ seqs[s].pc = "forecast"
    /\ seqs' = [seqs EXCEPT ![s] = IdleSeq]
    /\ ev' = Event("forecast", s, r.shape, -1)
    /\ IF ~r.ok
       THEN /\ setLoadingState("Weather data unavailable.")
            /\ UNCHANGED <<weatherData, document>>
       ELSE LET data == Put(r.data, "cityName", seqs[s].name)
                p == populateUI(data, now, mainView, hourCards, dayRows)
            IN  /\ UNCHANGED weatherData
                /\ mainView' = p.main
                /\ hourCards' = p.cards
                /\ dayRows' = p.rows
                /\ IF p.threw
                   THEN setLoadingState("Weather data unavailable.")
                   ELSE /\ statusVisible' = FALSE
                        /\ appVisible' = TRUE
                        /\ UNCHANGED statusText
    /\ UNCHANGED <<now, geoSupported, lastTrig, triggers, fnVars>>

\* getWeather with an empty catch: a failure shows nothing.
getWeatherResponse_SilentCatch(s, r) ==
    /\ seqs[s].pc = "forecast"
    /\ seqs' = [seqs EXCEPT ![s] = IdleSeq]
    /\ ev' = Event("forecast", s, r.shape, -1)
    /\ IF ~r.ok
       THEN UNCHANGED <<weatherData, document, statusVisible, statusText, appVisible>>
       ELSE LET data == Put(r.data, "cityName", seqs[s].name)
                p == populateUI(data, now, mainView, hourCards, dayRows)
            IN  /\ weatherData' = <<data>>
                /\ mainView' = p.main
                /\ hourCards' = p.cards
                /\ dayRows' = p.rows
                /\ statusVisible' = FALSE
                /\ appVisible' = TRUE
                /\ UNCHANGED statusText
    /\ UNCHANGED <<now, geoSupported, lastTrig, triggers, fnVars>>

getWeatherResponse(s, r) ==
    /\ seqs[s].pc = "forecast"
    /\ seqs' = [seqs EXCEPT ![s] = IdleSeq]
    /\ ev' = Event("forecast", s, r.shape, -1)
    /\ IF ~r.ok
       THEN /\ setLoadingState("Weather data unavailable.")
            /\ UNCHANGED <<weatherData, document>>
       ELSE LET data == Put(r.data, "cityName", seqs[s].name)
                p == populateUI(data, now, mainView, hourCards, dayRows)
            IN  /\ weatherData' = <<data>>
                /\ mainView' = p.main
                /\ hourCards' = p.cards
                /\ dayRows' = p.rows
                /\ IF p.threw
                   THEN setLoadingState("Weather data unavailable.")
                   ELSE /\ statusVisible' = FALSE
                        /\ appVisible' = TRUE
                        /\ UNCHANGED statusText
    /\ UNCHANGED <<now, geoSupported, lastTrig, triggers, fnVars>>

\* A row click that also requests the forecast again.
DayRowClick_Refetch(i) ==
    /\ appVisible
    /\ i + 1 \in DOMAIN dayRows
    /\ LET r == renderMainView(weatherData[1], dayRows[i + 1].index, now,
                               mainView, hourCards)
       IN  /\ mainView' = r.main
           /\ hourCards' = r.cards
           /\ dayRows' = IF r.threw THEN dayRows ELSE Highlight(dayRows, i)
    /\ \E s \in Seqs :
        /\ FreeSeq(s)
        /\ seqs' = [seqs EXCEPT ![s] = [IdleSeq EXCEPT
                                            !.pc = "forecast",
                                            !.lat = weatherData[1].latitude,
                                            !.name = weatherData[1].cityName]]
    /\ ev' = Event("dayClick", 0, IF mainView.index = i THEN "again" ELSE "", i)
    /\ UNCHANGED <<weatherData, statusVisible, statusText, appVisible,
                   now, geoSupported, lastTrig, triggers, fnVars>>

\* A click on day row i, script.js:240-245.  A row can be clicked while the
\* container is displayed.
DayRowClick(i) ==
    /\ appVisible
    /\ i + 1 \in DOMAIN dayRows
    /\ LET r == renderMainView(weatherData[1], dayRows[i + 1].index, now,
                               mainView, hourCards)
       IN  /\ mainView' = r.main
           /\ hourCards' = r.cards
           /\ dayRows' = IF r.threw THEN dayRows ELSE Highlight(dayRows, i)
    /\ ev' = Event("dayClick", 0, IF mainView.index = i THEN "again" ELSE "", i)
    /\ UNCHANGED <<weatherData, statusVisible, statusText, appVisible,
                   seqs, now, geoSupported, lastTrig, triggers, fnVars>>

\* A click on an hour card, script.js:216-220: every card has the same
\* handler.
HourCardClick ==
    /\ appVisible
    /\ hourCards # <<>>
    /\ LET r == renderMainView(weatherData[1], -1, now, mainView, hourCards)
       IN  /\ mainView' = r.main
           /\ hourCards' = r.cards
           /\ dayRows' = IF r.threw THEN dayRows ELSE Highlight(dayRows, -1)
    /\ ev' = Event("hourClick", 0, IF mainView.index = -1 THEN "again" ELSE "", -1)
    /\ UNCHANGED <<weatherData, statusVisible, statusText, appVisible,
                   seqs, now, geoSupported, lastTrig, triggers, fnVars>>

\* Time passes between two handlers.
Tick ==
    /\ \E k \in 1..(Len(ClockValues) - 1) :
        /\ now = ClockValues[k]
        /\ now' = ClockValues[k + 1]
    /\ ev' = Event("tick", 0, "", -1)
    /\ UNCHANGED <<weatherData, statusVisible, statusText, appVisible, document,
                   seqs, geoSupported, lastTrig, triggers, fnVars>>

\* The forecast request of sequence s settles, with any of the answers the
\* service can give for its coordinates.
ForecastSettles(s) ==
    /\ seqs[s].pc = "forecast"
    /\ \E r \in ForecastResponses(seqs[s].lat, now) : getWeatherResponse(s, r)

Next ==
    \/ initApp
    \/ \E s \in Seqs : GeoSuccess(s)
    \/ \E s \in Seqs : GeoError(s)
    \/ \E s \in Seqs : \E r \in ReverseResponses : ReverseResponse(s, r)
    \/ \E val \in Queries : handleManualSearch(val)
    \/ \E s \in Seqs : \E r \in SearchResponses : SearchResponse(s, r)
    \/ \E s \in Seqs : ForecastSettles(s)
    \/ \E i \in 0..(NumDays - 1) : DayRowClick(i)
    \/ HourCardClick
    \/ Tick

Spec == Init /\ [][Next]_vars

\* The external call sequence s waits for completes: the position
\* callback or the error callback of getCurrentPosition is called, or the
\* pending fetch settles and the code after its await runs.
CallCompletes(s) ==
    \/ GeoSuccess(s)
    \/ GeoError(s)
    \/ \E r \in ReverseResponses : ReverseResponse(s, r)
    \/ \E r \in SearchResponses : SearchResponse(s, r)
    \/ ForecastSettles(s)

\* The application with every external call completing.
SpecLive == Init /\ [][Next]_vars /\ \A s \in Seqs : WF_vars(CallCompletes(s))

-----------------------------------------------------------------------------
(* The pure functions on their own: SpecFn draws an argument and applies   *)
(* the function to it.                                                     *)

FnInputs ==
    [op : {"parseWeather"}, code : 0..MaxCode, isDay : {0, 1}]
        \cup [op : {"hourLabel"}, h : 0..(HoursPerDay - 1)]
        \cup [op : {"renderHourly"}, n : 0..MaxHourlyLen,
              dayIndex : -1..(NumDays - 1), clock : -1..MaxHourlyLen]

InitFn ==
    /\ weatherData = <<>>
    /\ statusVisible = TRUE
    /\ statusText = ""
    /\ appVisible = FALSE
    /\ mainView = BlankMain
    /\ hourCards = <<>>
    /\ dayRows = <<>>
    /\ seqs = [s \in Seqs |-> IdleSeq]
    /\ now = ClockValues[1]
    /\ geoSupported = TRUE
    /\ lastTrig = 0
    /\ triggers = 0
    /\ ev = NoEvent
    /\ fnIn \in FnInputs
    /\ fnOut = [op |-> "none"]

CallParseWeather ==
    /\ fnIn.op = "parseWeather"
    /\ fnOut.op = "none"
    /\ fnOut' = [op |-> "parseWeather",
                 result |-> parseWeather(fnIn.code, fnIn.isDay)]
    /\ UNCHANGED <<appVars, fnIn>>

CallHourLabel ==
    /\ fnIn.op = "hourLabel"
    /\ fnOut.op = "none"
    /\ fnOut' = [op |-> "hourLabel", result |-> HourLabel(fnIn.h)]
    /\ UNCHANGED <<appVars, fnIn>>

CallRenderHourly ==
    /\ fnIn.op = "renderHourly"
    /\ fnOut.op = "none"
    /\ fnOut' = [op |-> "renderHourly",
                 result |-> renderHourly(<<HourlySeries(0, fnIn.n)>>, fnIn.dayIndex,
                                         <<DailySeries(0, NumDays)>>, fnIn.clock)]
    /\ UNCHANGED <<appVars, fnIn>>

NextFn ==
    \/ CallParseWeather
    \/ CallHourLabel
    \/ CallRenderHourly

SpecFn == InitFn /\ [][NextFn]_vars

-----------------------------------------------------------------------------
(* Claims *)

\* The bucket table of the specification, by range.
BucketOf(code, isDay) ==
    CASE code = 0 -> [label |-> "Clear Sky",
                      theme |-> IF isDay = 1 THEN "clear" ELSE "night"]
      [] code \in 1..3 -> [label |-> "Partly Cloudy", theme |-> "cloudy"]
      [] code \in 45..48 -> [label |-> "Foggy", theme |-> "cloudy"]
      [] code \in 51..67 -> [label |-> "Rain", theme |-> "rain"]
      [] code \in 71..86 -> [label |-> "Snowfall", theme |-> "cloudy"]
      [] code >= 95 -> [label |-> "Thunderstorm", theme |-> "rain"]
      [] OTHER -> [label |-> "Cloudy", theme |-> "cloudy"]

\* C1: for every weather code in 0..MaxCode and both daytime flags,
\* parseWeather returns the label and theme of the code's bucket in the
\* table (the fallback 'Cloudy' for every code in a gap), and only code 0
\* has a theme that depends on the daytime flag.
C1_Classification ==
    fnOut.op = "parseWeather" =>
        /\ fnOut.result.label = BucketOf(fnIn.code, fnIn.isDay).label
        /\ fnOut.result.theme = BucketOf(fnIn.code, fnIn.isDay).theme
        /\ fnIn.code # 0 =>
              parseWeather(fnIn.code, 0).theme = parseWeather(fnIn.code, 1).theme

\* A code of a gap of the table has been classified by the fallback.
C1_Witness ==
    /\ fnOut.op = "parseWeather"
    /\ fnIn.code = 40
    /\ fnOut.result.label = "Cloudy"

\* The 12-hour rule of the specification.
TwelveHour(h) ==
    IF h = 0 THEN "12 AM"
    ELSE IF h <= 11 THEN ToString(h) \o " AM"
    ELSE IF h = 12 THEN "12 PM"
    ELSE ToString(h - 12) \o " PM"

\* C2: for every hour h in 0..23 the clock label of an hour card follows the
\* 12-hour rule: 12 AM at 0, h AM up to 11, 12 PM at 12, (h-12) PM after.
C2_ClockLabel ==
    fnOut.op = "hourLabel" => fnOut.result = TwelveHour(fnIn.h)

\* C9: renderHourly never fails on a payload with an hourly series, and it
\* produces at most HourlyWindow cards: as many as there are entries from
\* the start index to the end of the series, up to HourlyWindow.
C9_HourlyWindow ==
    fnOut.op = "renderHourly" =>
        /\ ~fnOut.result.threw
        /\ Len(fnOut.result.cards) <= HourlyWindow
        /\ Len(fnOut.result.cards) = Min(HourlyWindow, fnIn.n - fnOut.result.startIdx)

\* Fewer than HourlyWindow entries remained from a start index inside the
\* series, and as many cards were produced.
C9_Witness ==
    /\ fnOut.op = "renderHourly"
    /\ fnOut.result.startIdx > 0
    /\ fnIn.n - fnOut.result.startIdx < HourlyWindow
    /\ Len(fnOut.result.cards) = fnIn.n - fnOut.result.startIdx
    /\ Len(fnOut.result.cards) > 0

\* The fixed status strings of the failures.
Unavailable == "Weather data unavailable."

FailureText(e) ==
    CASE e.op = "geoError" -> "Location denied. Please search manually."
      [] e.op = "searchResponse" /\ e.out = "notFound" -> "City not found."
      [] e.op = "searchResponse" /\ e.out = "fail" -> "Search connection error."
      [] e.op = "forecast" -> Unavailable

\* The requests in flight: a sequence waiting for an answer of a service.
Awaiting(q, s) == q[s].pc \in {"reverse", "search", "forecast"}

\* No request is issued in the step.
NoRequestIssued == \A t \in Seqs : Awaiting(seqs', t) => seqs'[t] = seqs[t]

\* C3: when the forecast request fails or its answer lacks a requested
\* part, getWeather ends with 'Weather data unavailable.' shown and the
\* container hidden, and nothing is written to the main view, the hour cards
\* or the day rows.
C3_FailedFetchRendersNothing ==
    [][ (ev'.op = "forecast" /\ ev'.out # "ok") =>
            /\ statusVisible' /\ statusText' = Unavailable
            /\ ~appVisible'
            /\ UNCHANGED <<mainView, hourCards, dayRows>> ]_vars

\* C4: a sequence in flight is changed by its own callbacks only, whatever
\* else is triggered or settles meanwhile; and when the complete forecast of
\* a sequence arrives, populateUI runs with it: the stored payload and the
\* name and values on display are those of that sequence, whichever sequence
\* was triggered last.
C4_LastResponseWins ==
    [][ /\ \A s \in Seqs :
              (seqs[s].pc # "idle" /\ seqs'[s] # seqs[s]) =>
                  /\ ev'.seq = s
                  /\ ev'.op \in {"geoSuccess", "geoError", "reverse",
                                 "searchResponse", "forecast"}
        /\ (ev'.op = "forecast" /\ ev'.out = "ok") =>
              LET s == ev'.seq
                  data == Put(ForecastData(seqs[s].lat, now, "ok"),
                              "cityName", seqs[s].name)
              IN  /\ weatherData' = <<data>>
                  /\ appVisible' /\ ~statusVisible'
                  /\ mainView'.cityName = seqs[s].name
                  /\ mainView'.tempNow = MathRound(<<data.current.temperature_2m>>)
                  /\ dayRows' = renderDaily(data.daily) ]_vars

\* The forecast of a geolocation sequence has been rendered while a search
\* sequence, triggered after it, still waits for its own forecast.
C4_Witness ==
    /\ ev.op = "forecast" /\ ev.out = "ok"
    /\ lastTrig \notin {0, ev.seq}
    /\ seqs[lastTrig].pc = "forecast"
    /\ seqs[lastTrig].lat # HereLat
    /\ weatherData # <<>>
    /\ weatherData[1].latitude = HereLat
    /\ mainView.cityName = weatherData[1].cityName
    /\ appVisible

\* The slot of the view on display; none while the container is hidden.
Slot == IF appVisible THEN <<mainView.index>> ELSE <<>>

\* C5: the slot on display is Current after every fetch that populateUI
\* rendered, Day(i) after a click on day row i and Current after a click on
\* an hour card, and it changes to another slot in no other step.
C5_RenderMode ==
    /\ [](/\ (ev.op = "forecast" /\ appVisible) => Slot = <<-1>>
          /\ ev.op = "dayClick" => Slot = <<ev.idx>>
          /\ ev.op = "hourClick" => Slot = <<-1>>)
    /\ [][ (Slot' # Slot /\ Slot' # <<>>) =>
              ev'.op \in {"forecast", "dayClick", "hourClick"} ]_vars

\* A click on day row 1 has moved the view from another slot to Day(1).
C5_Witness ==
    /\ ev.op = "dayClick" /\ ev.idx = 1 /\ ev.out # "again"
    /\ Slot = <<1>>

\* C6: a click on a day row or on an hour card leaves the stored payload,
\* its location name included, as it was, issues no request, and renders
\* the stored payload.
C6_ClickKeepsPayload ==
    [][ ev'.op \in {"dayClick", "hourClick"} =>
            /\ weatherData' = weatherData
            /\ seqs' = seqs
            /\ mainView' = IF ev'.op = "dayClick"
                           THEN DayFields(weatherData[1], ev'.idx)
                           ELSE CurrentFields(weatherData[1], now) ]_vars

C6_Witness ==
    /\ ev.op = "dayClick" /\ ev.idx = 1
    /\ weatherData # <<>>
    /\ mainView = DayFields(weatherData[1], 1)
    /\ \E s \in Seqs : Awaiting(seqs, s)

\* C7: when the search returns no result, handleManualSearch ends with
\* 'City not found.', the sequence is over with no forecast request issued,
\* and the stored payload is what it was.
C7_NotFound ==
    [][ (ev'.op = "searchResponse" /\ ev'.out = "notFound") =>
            /\ statusVisible' /\ statusText' = "City not found."
            /\ ~appVisible'
            /\ seqs'[ev'.seq] = IdleSeq
            /\ NoRequestIssued
            /\ weatherData' = weatherData ]_vars

\* A search found nothing while a payload fetched earlier is stored.
C7_Witness ==
    /\ ev.op = "searchResponse" /\ ev.out = "notFound"
    /\ statusText = "City not found."
    /\ weatherData # <<>>

\* A failure is surfaced in the step: a fixed status string is shown, the
\* container is hidden.
Surfaced == statusVisible' /\ ~appVisible' /\ statusText' = FailureText(ev')

\* C8, as claimed: a sequence in which a failure of any kind occurred, the
\* reverse lookup's included, ends with a fixed status string shown and the
\* container hidden.
C8_EveryFailureSurfaced ==
    [][ \A s \in Seqs :
            (/\ seqs[s].pc # "idle" /\ seqs'[s].pc = "idle"
             /\ \/ ev'.out \in {"denied", "notFound", "fail"}
                \/ seqs[s].revFailed) =>
                /\ statusVisible' /\ ~appVisible'
                /\ statusText' \in {FailureText(ev'), Unavailable} ]_vars

\* C8, amended: a refused geolocation, a search with no match, a failure of
\* the forward search and a failure of the forecast request each end their
\* sequence in the same step with the fixed status string shown and the
\* container hidden, and no request is issued again; a failure of the
\* reverse lookup shows nothing: the name becomes 'My Location' and the
\* forecast request is issued.
C8_FailuresSurfaced ==
    [][ /\ (/\ ev'.op \in {"geoError", "searchResponse", "forecast"}
            /\ ev'.out \in {"denied", "notFound", "fail"}) =>
                /\ Surfaced
                /\ seqs'[ev'.seq] = IdleSeq
                /\ NoRequestIssued
        /\ (ev'.op = "reverse" /\ ev'.out = "fail") =>
                /\ seqs'[ev'.seq].pc = "forecast"
                /\ seqs'[ev'.seq].name = "My Location"
                /\ UNCHANGED <<statusVisible, statusText, appVisible>> ]_vars

\* The geolocation was refused while a forecast fetched before was on
\* display.
C8_Witness ==
    /\ ev.op = "geoError"
    /\ statusVisible /\ ~appVisible
    /\ statusText = "Location denied. Please search manually."
    /\ \A s \in Seqs : seqs[s].pc = "idle"

\* C10, as claimed: rendering again the slot on display, Current or Day(i),
\* on the stored payload changes nothing of the main view nor of the hour
\* cards.
C10_RenderPure ==
    [][ (ev'.op \in {"dayClick", "hourClick"} /\ ev'.out = "again") =>
            UNCHANGED <<mainView, hourCards>> ]_vars

\* C10, amended: rendering Day(i) again on the stored payload changes
\* nothing of the main view nor of the hour cards, at whatever time;
\* rendering Current again changes nothing when it happens at the instant of
\* the rendering on display, and otherwise nothing but the fields the code
\* takes from the clock: the date string, and the hour cards.
C10_RenderPureUpToClock ==
    [][ /\ (ev'.op = "dayClick" /\ ev'.out = "again") =>
              UNCHANGED <<mainView, hourCards>>
        /\ (ev'.op = "hourClick" /\ ev'.out = "again") =>
              /\ mainView' = [mainView EXCEPT !.currentDay = DateTimeString(now)]
              /\ mainView.currentDay = DateTimeString(now) =>
                    UNCHANGED <<mainView, hourCards>> ]_vars

\* Day(1) was rendered again, on a day after the payload's first.
C10_Witness ==
    /\ ev.op = "dayClick" /\ ev.out = "again" /\ ev.idx = 1
    /\ weatherData # <<>>
    /\ DatePortion(now) > weatherData[1].daily.time[1]
    /\ mainView = DayFields(weatherData[1], 1)

\* C11: whenever the slot on display is Day(i), the humidity field holds the
\* placeholder "--" and no number; it holds "<value>%", with the value of
\* the stored payload's current conditions, only when the slot is Current.
C11_HumidityPlaceholder ==
    /\ (Slot # <<>> /\ Slot[1] >= 0) => mainView.humidity = "--"
    /\ (Slot # <<>> /\ mainView.humidity # "--") =>
            /\ Slot = <<-1>>
            /\ weatherData # <<>>
            /\ mainView.humidity =
                 ToString(weatherData[1].current.relative_humidity_2m) \o "%"

\* Day(1) is on display, over a payload whose current conditions hold a
\* humidity.
C11_Witness ==
    /\ Slot = <<1>>
    /\ ev.op = "dayClick"
    /\ mainView.humidity = "--"
    /\ Has(weatherData[1].current, "relative_humidity_2m")

\* The names a geolocation sequence and a search sequence can resolve, and
\* the instants of the model.
GeoNames == {reverseLookup(r) : r \in ReverseResponses}

SearchNames == {SearchName(r) : r \in {q \in SearchResponses : SearchOutcome(q) = "ok"}}

Instants == {ClockValues[k] : k \in DOMAIN ClockValues}

\* d is what one sequence stores: one answer of the forecast service for
\* the coordinates of the sequence, under the name that sequence resolved.
OneFetch(d) ==
    /\ \E t \in Instants : \E sh \in ForecastShapes :
           Drop(d, "cityName") = ForecastData(d.latitude, t, sh)
    /\ d.cityName \in (IF d.latitude = HereLat THEN GeoNames ELSE SearchNames)

\* The day rows without their highlight.
Unlit(rows) == [k \in DOMAIN rows |-> [rows[k] EXCEPT !.background = ""]]

\* The hour strips renderHourly builds from d for the slot index.
StripsOf(d, index) ==
    {renderHourly(Get(d, "hourly"), index, Get(d, "daily"), t).cards : t \in Instants}

\* C12: under every interleaving of the sequences, the current conditions,
\* the hourly series, the daily series and the location name of the stored
\* payload come from one and the same sequence, and while the container is
\* on display the name shown, the hour strip and the day list are those of
\* that one stored payload.
C12_OnePayload ==
    /\ weatherData # <<>> => OneFetch(weatherData[1])
    /\ appVisible =>
          /\ weatherData # <<>>
          /\ mainView.cityName = weatherData[1].cityName
          /\ hourCards \in StripsOf(weatherData[1], mainView.index)
          /\ Unlit(dayRows) = renderDaily(weatherData[1].daily)

\* A forecast is on display while another sequence, which resolved another
\* name for other coordinates, still waits for its forecast.
C12_Witness ==
    /\ appVisible
    /\ ev.op = "forecast"
    /\ \E s \in Seqs :
          /\ seqs[s].pc = "forecast"
          /\ seqs[s].name # weatherData[1].cityName
          /\ seqs[s].lat # weatherData[1].latitude

\* The day rows and the hour cards of the document are those built from
\* the stored payload, one row for each entry of its daily series.
BuiltFromStored ==
    /\ weatherData # <<>>
    /\ Has(weatherData[1], "daily")
    /\ Len(dayRows) = Len(weatherData[1].daily.time)
    /\ \A k \in DOMAIN dayRows :
          /\ dayRows[k].index = k - 1
          /\ [dayRows[k] EXCEPT !.background = ""] = DayRow(weatherData[1].daily, k - 1)
    /\ hourCards \in StripsOf(weatherData[1], mainView.index)

\* C13: whenever the container is visible the stored payload is not null
\* and the day rows and hour cards on display were built from it, so a
\* click on a day row renders Day(i) of the stored payload with
\* 0 <= i < length of its daily series: no click handler runs on a null
\* payload nor with an index outside the payload.
C13_ClicksInRange ==
    /\ appVisible => BuiltFromStored
    /\ ev.op \in {"dayClick", "hourClick"} => appVisible
    /\ ev.op = "dayClick" =>
          /\ ev.idx \in 0..(Len(weatherData[1].daily.time) - 1)
          /\ mainView = DayFields(weatherData[1], ev.idx)

\* The last row of the list was clicked and its day is on display.
C13_Witness ==
    /\ ev.op = "dayClick"
    /\ appVisible
    /\ ev.idx = Len(weatherData[1].daily.time) - 1
    /\ mainView.index = ev.idx
    /\ dayRows[ev.idx + 1].background # ""

\* s is the 0-based index of the first entry of series time that is among
\* hits (1-based positions), and 0 when there is none.
FirstOrZero(s, hits) ==
    IF hits = {} THEN s = 0
    ELSE /\ s + 1 \in hits
         /\ \A k \in hits : s + 1 <= k

\* C14: in the Current view the hourly window starts at the first entry
\* whose timestamp is strictly after now, and at index 0 when every
\* timestamp is at or before now; the first card shown is labelled "Now"
\* and no other card is.
C14_CurrentWindowStart ==
    (fnOut.op = "renderHourly" /\ fnIn.dayIndex = -1) =>
        LET time == HourlySeries(0, fnIn.n).time
            res == fnOut.result
        IN  /\ FirstOrZero(res.startIdx, {k \in DOMAIN time : time[k] > fnIn.clock})
            /\ \A c \in DOMAIN res.cards :
                  (res.cards[c].timeLabel = "Now") <=> (c = 1)
            /\ \A c \in DOMAIN res.cards :
                  res.cards[c].temp = HourCard(HourlySeries(0, fnIn.n), -1,
                                               res.startIdx, res.startIdx + c - 1).temp

\* The series holds the instant now itself and later ones: the window
\* starts after the entry of now, on a card labelled "Now".
C14_Witness ==
    /\ fnOut.op = "renderHourly"
    /\ fnIn.dayIndex = -1
    /\ fnIn.clock >= 0
    /\ fnOut.result.startIdx = fnIn.clock + 1
    /\ Len(fnOut.result.cards) > 1
    /\ fnOut.result.cards[1].timeLabel = "Now"

\* Every timestamp of the series is at or before now: the window starts at
\* index 0.
C14_WitnessFallback ==
    /\ fnOut.op = "renderHourly"
    /\ fnIn.dayIndex = -1
    /\ fnIn.n > 0
    /\ fnIn.clock >= fnIn.n - 1
    /\ fnOut.result.startIdx = 0

\* C15: in the view of Day(i) the hourly window starts at the first entry
\* whose date portion equals the date of daily[i], and at index 0 when no
\* entry has that date; no card is labelled "Now".
C15_DayWindowStart ==
    (fnOut.op = "renderHourly" /\ fnIn.dayIndex >= 0) =>
        LET time == HourlySeries(0, fnIn.n).time
            date == DailySeries(0, NumDays).time[fnIn.dayIndex + 1]
            res == fnOut.result
        IN  /\ FirstOrZero(res.startIdx,
                           {k \in DOMAIN time : DatePortion(time[k]) = date})
            /\ \A c \in DOMAIN res.cards : res.cards[c].timeLabel # "Now"

\* The series reaches into the second day: the window of Day(1) starts at
\* the first hour of that day.
C15_Witness ==
    /\ fnOut.op = "renderHourly"
    /\ fnIn.dayIndex = 1
    /\ fnOut.result.startIdx = HoursPerDay
    /\ Len(fnOut.result.cards) > 0
    /\ fnOut.result.cards[1].timeLabel = "12 AM"

\* C16: a reverse lookup that fails (network or parse failure, or an answer
\* without address) does not stop the geolocation sequence: reverseLookup
\* returns "My Location", the forecast request for the coordinates obtained
\* is issued all the same, and its answer is stored and rendered under
\* that name.
C16_ReverseFallback ==
    [][ /\ (ev'.op = "reverse" /\ ev'.out = "fail") =>
              /\ seqs[ev'.seq].lat = HereLat
              /\ seqs'[ev'.seq] = [pc |-> "forecast", lat |-> HereLat,
                                   name |-> "My Location", revFailed |-> TRUE]
              /\ UNCHANGED <<statusVisible, statusText, appVisible>>
        /\ (ev'.op = "forecast" /\ seqs[ev'.seq].revFailed /\ ev'.out \in {"ok", "noTemp"}) =>
              /\ appVisible'
              /\ weatherData'[1].latitude = HereLat
              /\ weatherData'[1].cityName = "My Location"
              /\ mainView'.cityName = "My Location" ]_vars

\* The reverse lookup of a sequence has failed and the sequence now waits
\* for the forecast of the position, under the name "My Location".
C16_Witness ==
    /\ ev.op = "reverse"
    /\ ev.out = "fail"
    /\ seqs[ev.seq].pc = "forecast"
    /\ seqs[ev.seq].revFailed
    /\ seqs[ev.seq].name = "My Location"

\* The status strings with which a sequence can end.
ErrorTexts ==
    {"Geolocation not supported.", "Location denied. Please search manually.",
     "City not found.", "Search connection error.", Unavailable}

\* How far a sequence has come.
Rank(pc) ==
    CASE pc \in {"geo", "search"} -> 1
      [] pc = "reverse" -> 2
      [] pc = "forecast" -> 3
      [] pc = "idle" -> 4

\* C17: every triggered sequence (page load, relocate click, search with a
\* non-empty query) whose external calls all complete comes to an end, and
\* it ends in one of two outcomes: the forecast rendered with the container
\* visible, or an error message shown in the status indicator; a sequence
\* only ever moves forward and its last step issues no request, so nothing
\* is retried.
C17_SequencesEnd ==
    /\ \A s \in Seqs : (seqs[s].pc # "idle") ~> (seqs[s].pc = "idle")
    /\ [][ /\ \A s \in Seqs :
                /\ (seqs[s].pc # "idle" /\ seqs'[s].pc = "idle") =>
                      /\ NoRequestIssued
                      /\ \/ /\ appVisible' /\ ~statusVisible'
                            /\ weatherData' # <<>>
                            /\ mainView'.index = -1
                            /\ mainView'.cityName = weatherData'[1].cityName
                         \/ /\ statusVisible' /\ ~appVisible'
                            /\ statusText' \in ErrorTexts
                /\ (seqs[s].pc # "idle" /\ seqs'[s].pc # seqs[s].pc) =>
                      Rank(seqs'[s].pc) > Rank(seqs[s].pc)
           /\ (ev'.op = "initApp" /\ ev'.out = "unsupported") =>
                 /\ statusVisible' /\ ~appVisible'
                 /\ statusText' \in ErrorTexts
                 /\ UNCHANGED seqs ]_vars

\* Every sequence that was triggered has ended, the last one with its
\* forecast rendered.
C17_Witness ==
    /\ triggers = MaxTriggers
    /\ \A s \in Seqs : seqs[s].pc = "idle"
    /\ ev.op = "forecast"
    /\ ev.out = "ok"
    /\ appVisible
    /\ ~statusVisible

\* C18: once a handler has run, exactly one of the status indicator and the
\* container is visible whenever a handler or callback has finished: the
\* handlers that call setLoadingState leave the status shown and the
\* container hidden, a populateUI that runs to its end leaves the opposite,
\* and a populateUI that fails midway is followed by setLoadingState in the
\* same handler.
C18_OneVisible ==
    /\ ev.op # "none" => (statusVisible # appVisible)
    /\ ev.op \in {"initApp", "search", "geoError"} => (statusVisible /\ ~appVisible)
    /\ (ev.op = "searchResponse" /\ ev.out # "ok") => (statusVisible /\ ~appVisible)
    /\ (ev.op = "forecast" /\ ev.out \in {"ok", "noTemp"}) => (appVisible /\ ~statusVisible)
    /\ (ev.op = "forecast" /\ ev.out \notin {"ok", "noTemp"}) =>
          (statusVisible /\ ~appVisible /\ statusText = Unavailable)

\* populateUI had shown the container and written the main view when
\* renderHourly threw; the handler ended with the status shown.
C18_Witness ==
    /\ ev.op = "forecast"
    /\ ev.out = "noHourly"
    /\ weatherData # <<>>
    /\ mainView = CurrentFields(weatherData[1], now)
    /\ statusVisible
    /\ ~appVisible

\* C19: a forecast sequence that ends with "Weather data unavailable."
\* leaves the stored payload as it was, so that the stored payload is
\* always null or the payload of the last fetch that was rendered.
C19_FailureKeepsPayload ==
    [][ (ev'.op = "forecast" /\ statusVisible' /\ statusText' = Unavailable) =>
            weatherData' = weatherData ]_vars

====
